---- MODULE Spec2Model ----
(***************************************************************************)
(* Unit & currency converter (src/app.py): the conversion functions        *)
(* convert_temperature, convert_units, convert_currency, the rate fetch    *)
(* fetch_exchange_rates and one run of main().                             *)
(*                                                                         *)
(* Numbers.  Python floats are modelled as exact rationals: a number is    *)
(* n/d * 2^p2 * 5^p5 with n, d coprime to each other and to 10 (d > 0), a  *)
(* unique normal form, so equality of numbers is equality of records and   *)
(* every decimal literal of the source is represented exactly.  Rounding   *)
(* of IEEE doubles is not modelled; division by zero is (it raises).       *)
(***************************************************************************)
EXTENDS Integers, Sequences, FiniteSets, TLC

VARIABLES
    \* one run of main()
    pc,              \* position in main(): start, units, inputs, sidebar, main, ai, done, crashed
    rate_key_set,    \* exchange_rate_api_key is truthy (module level, line 8)
    openai_key_set,  \* openai_api_key is truthy (module level, line 7)
    category,        \* main: category
    units,           \* main: units (the options of both unit select boxes)
    from_unit,       \* main: from_unit
    to_unit,         \* main: to_unit
    value,           \* main: value
    pressed,         \* main: st.sidebar.button("Convert")
    sidebar,         \* what the sidebar shows for the conversion (lines 241-244)
    mainArea,        \* what the main area shows for the conversion (lines 254-258)
    fetchLog,        \* the calls of fetch_exchange_rates made by this run, in order
    aiShown,         \* what the AI Assistant section shows (lines 269-277)
    \* direct calls of the conversion functions
    fn,              \* the function called last
    args,            \* its arguments
    result,          \* what it returned (or raised)
    back             \* convert_units only: the result converted back

vars == <<pc, rate_key_set, openai_key_set, category, units, from_unit, to_unit,
          value, pressed, sidebar, mainArea, fetchLog, aiShown, fn, args, result, back>>

mainVars == <<pc, rate_key_set, openai_key_set, category, units, from_unit, to_unit,
              value, pressed, sidebar, mainArea, fetchLog, aiShown>>

fnVars == <<fn, args, result, back>>

-----------------------------------------------------------------------------
(* Exact arithmetic *)

Abs(i) == IF i < 0 THEN -i ELSE i

Sign(i) == IF i < 0 THEN -1 ELSE 1

Min(a, b) == IF a < b THEN a ELSE b

RECURSIVE Gcd(_, _)
Gcd(a, b) == IF b = 0 THEN a ELSE Gcd(b, a % b)

RECURSIVE Pow(_, _)
Pow(b, k) == IF k = 0 THEN 1 ELSE b * Pow(b, k - 1)

\* how many times the prime p divides a (a > 0)
RECURSIVE Cnt(_, _)
Cnt(a, p) == IF a % p = 0 THEN 1 + Cnt(a \div p, p) ELSE 0

Zero == [n |-> 0, d |-> 1, p2 |-> 0, p5 |-> 0]

\* the normal form of n/d * 2^p2 * 5^p5 (d > 0)
Norm(n, d, p2, p5) ==
    IF n = 0 THEN Zero
    ELSE LET a   == Abs(n)
             c2n == Cnt(a, 2)
             c5n == Cnt(a, 5)
             c2d == Cnt(d, 2)
             c5d == Cnt(d, 5)
             a1  == (a \div Pow(2, c2n)) \div Pow(5, c5n)
             d1  == (d \div Pow(2, c2d)) \div Pow(5, c5d)
             g   == Gcd(a1, d1)
         IN  [n  |-> Sign(n) * (a1 \div g),
              d  |-> d1 \div g,
              p2 |-> p2 + c2n - c2d,
              p5 |-> p5 + c5n - c5d]

\* the decimal literal m * 10^e
Dec(m, e) == Norm(m, 1, e, e)

IsZero(x) == x.n = 0

Mul(x, y) ==
    IF IsZero(x) \/ IsZero(y) THEN Zero
    ELSE LET g1 == Gcd(Abs(x.n), y.d)
             g2 == Gcd(Abs(y.n), x.d)
         IN  [n  |-> (x.n \div g1) * (y.n \div g2),
              d  |-> (x.d \div g2) * (y.d \div g1),
              p2 |-> x.p2 + y.p2,
              p5 |-> x.p5 + y.p5]

\* 1/y, y nonzero
Inv(y) == [n |-> Sign(y.n) * y.d, d |-> Abs(y.n), p2 |-> -y.p2, p5 |-> -y.p5]

\* x/y, y nonzero (the callers raise ZeroDivisionError on a zero divisor)
Div(x, y) == Mul(x, Inv(y))

Add(x, y) ==
    LET m2 == Min(x.p2, y.p2)
        m5 == Min(x.p5, y.p5)
        xn == x.n * Pow(2, x.p2 - m2) * Pow(5, x.p5 - m5)
        yn == y.n * Pow(2, y.p2 - m2) * Pow(5, y.p5 - m5)
    IN  Norm(xn * y.d + yn * x.d, x.d * y.d, m2, m5)

Neg(x) == [x EXCEPT !.n = -x.n]

Sub(x, y) == Add(x, Neg(y))

-----------------------------------------------------------------------------
(* What a Python call yields: a float, None, or a raised ZeroDivisionError *)

None == [kind |-> "None", val |-> Zero]

Number(x) == [kind |-> "number", val |-> x]

ZeroDivisionError == [kind |-> "ZeroDivisionError", val |-> Zero]

IsNumber(r) == r.kind = "number"

\* r / x * y as Python evaluates it: the division raises on a zero divisor
DivThenMul(v, x, y) ==
    IF IsZero(x) THEN ZeroDivisionError ELSE Number(Mul(Div(v, x), y))

-----------------------------------------------------------------------------
(* Conversion data, lines 16-124 *)

\* lines 16-121, each factor literal as <<m, e>> for m * 10^e
FACTOR_LITERALS ==
    "Length" :> (
        "Meter" :> <<1, 0>>   \* 1.0
     @@ "Kilometer" :> <<1, -3>>   \* 0.001
     @@ "Centimeter" :> <<1, 2>>   \* 100.0
     @@ "Millimeter" :> <<1, 3>>   \* 1000.0
     @@ "Mile" :> <<621371, -9>>   \* 0.000621371
     @@ "Yard" :> <<109361, -5>>   \* 1.09361
     @@ "Foot" :> <<328084, -5>>   \* 3.28084
     @@ "Inch" :> <<393701, -4>>)   \* 39.3701
 @@ "Mass" :> (
        "Kilogram" :> <<1, 0>>   \* 1.0
     @@ "Gram" :> <<1, 3>>   \* 1000.0
     @@ "Milligram" :> <<1, 6>>   \* 1e6
     @@ "Pound" :> <<220462, -5>>   \* 2.20462
     @@ "Ounce" :> <<35274, -3>>)   \* 35.274
 @@ "Area" :> (
        "Square meter" :> <<1, 0>>   \* 1.0
     @@ "Square kilometer" :> <<1, -6>>   \* 1e-6
     @@ "Square centimeter" :> <<1, 4>>   \* 10000.0
     @@ "Square foot" :> <<107639, -4>>   \* 10.7639
     @@ "Square yard" :> <<119599, -5>>   \* 1.19599
     @@ "Square inch" :> <<155, 1>>   \* 1550.0
     @@ "Acre" :> <<247105, -9>>   \* 0.000247105
     @@ "Hectare" :> <<1, -4>>)   \* 0.0001
 @@ "Volume" :> (
        "Liter" :> <<1, 0>>   \* 1.0
     @@ "Milliliter" :> <<1, 3>>   \* 1000.0
     @@ "Cubic meter" :> <<1, -3>>   \* 0.001
     @@ "US gallon" :> <<264172, -6>>   \* 0.264172
     @@ "US quart" :> <<105669, -5>>   \* 1.05669
     @@ "US pint" :> <<211338, -5>>   \* 2.11338
     @@ "US cup" :> <<416667, -5>>   \* 4.16667
     @@ "Fluid ounce" :> <<33814, -3>>)   \* 33.814
 @@ "Time" :> (
        "Second" :> <<1, 0>>   \* 1.0
     @@ "Millisecond" :> <<1, 3>>   \* 1000.0
     @@ "Microsecond" :> <<1, 6>>   \* 1e6
     @@ "Minute" :> <<166667, -7>>   \* 0.0166667
     @@ "Hour" :> <<277778, -9>>   \* 0.000277778
     @@ "Day" :> <<11574, -9>>   \* 1.1574e-5
     @@ "Week" :> <<16534, -10>>)   \* 1.6534e-6
 @@ "Speed" :> (
        "Meter per second" :> <<1, 0>>   \* 1.0
     @@ "Kilometer per hour" :> <<36, -1>>   \* 3.6
     @@ "Mile per hour" :> <<223694, -5>>   \* 2.23694
     @@ "Foot per second" :> <<328084, -5>>   \* 3.28084
     @@ "Knot" :> <<194384, -5>>)   \* 1.94384
 @@ "Pressure" :> (
        "Pascal" :> <<1, 0>>   \* 1.0
     @@ "Kilopascal" :> <<1, -3>>   \* 0.001
     @@ "Bar" :> <<1, -5>>   \* 1e-5
     @@ "PSI" :> <<145038, -9>>   \* 0.000145038
     @@ "Atmosphere" :> <<986923, -11>>)   \* 9.86923e-6
 @@ "Energy" :> (
        "Joule" :> <<1, 0>>   \* 1.0
     @@ "Kilojoule" :> <<1, -3>>   \* 0.001
     @@ "Calorie" :> <<239006, -6>>   \* 0.239006
     @@ "Kilocalorie" :> <<239006, -9>>   \* 0.000239006
     @@ "Watt-hour" :> <<277778, -9>>   \* 0.000277778
     @@ "Kilowatt-hour" :> <<277778, -12>>   \* 2.77778e-7
     @@ "BTU" :> <<947817, -9>>)   \* 0.000947817
 @@ "Data Transfer Rate" :> (
        "bit/s" :> <<1, 0>>   \* 1.0
     @@ "Kilobit/s" :> <<1, -3>>   \* 0.001
     @@ "Megabit/s" :> <<1, -6>>   \* 1e-6
     @@ "Gigabit/s" :> <<1, -9>>   \* 1e-9
     @@ "Byte/s" :> <<125, -3>>   \* 0.125
     @@ "Kilobyte/s" :> <<125, -6>>)   \* 0.000125
 @@ "Digital Storage" :> (
        "Byte" :> <<1, 0>>   \* 1.0
     @@ "Bit" :> <<8, 0>>   \* 8.0
     @@ "Kilobyte" :> <<9765625, -10>>   \* 0.0009765625
     @@ "Megabyte" :> <<95367, -11>>   \* 9.5367e-7
     @@ "Gigabyte" :> <<93132, -14>>   \* 9.3132e-10
     @@ "Terabyte" :> <<90949, -17>>)   \* 9.0949e-13
 @@ "Frequency" :> (
        "Hertz" :> <<1, 0>>   \* 1.0
     @@ "Kilohertz" :> <<1, -3>>   \* 0.001
     @@ "Megahertz" :> <<1, -6>>   \* 1e-6
     @@ "Gigahertz" :> <<1, -9>>)   \* 1e-9
 @@ "Fuel Economy" :> (
        "L/100km" :> <<1, 0>>   \* 1.0
     @@ "mpg (US)" :> <<425144, -8>>   \* 0.00425144
     @@ "km/L" :> <<1, -2>>)   \* 0.01
 @@ "Plane Angle" :> (
        "Degree" :> <<1, 0>>   \* 1.0
     @@ "Radian" :> <<174533, -7>>   \* 0.0174533
     @@ "Gradian" :> <<111111, -5>>   \* 1.11111
     @@ "Arcminute" :> <<6, 1>>   \* 60.0
     @@ "Arcsecond" :> <<36, 2>>)   \* 3600.0

\* the factors as numbers
CONVERSION_FACTORS ==
    [c \in DOMAIN FACTOR_LITERALS |->
        [u \in DOMAIN FACTOR_LITERALS[c] |->
            Dec(FACTOR_LITERALS[c][u][1], FACTOR_LITERALS[c][u][2])]]

\* line 124
TEMPERATURE_UNITS == <<"Celsius", "Fahrenheit", "Kelvin">>

\* a sequence's elements
Range(s) == {s[i] : i \in DOMAIN s}

\* Python's None as a unit: st.selectbox over no options returns None,
\* which is a key of no mapping
NoneUnit == "<None>"

\* the numeric literals of convert_temperature
N9 == Dec(9, 0)
N5 == Dec(5, 0)
N32 == Dec(32, 0)
N273_15 == Dec(27315, -2)

-----------------------------------------------------------------------------
(* Conversion functions, lines 126-182 *)

\* convert_temperature with the Fahrenheit -> Kelvin offset forgotten
convert_temperature_noOffset(v, from, to) ==
    IF from = to THEN Number(v)
    ELSE IF from = "Celsius" /\ to = "Fahrenheit"
        THEN Number(Add(Div(Mul(v, N9), N5), N32))
    ELSE IF from = "Fahrenheit" /\ to = "Celsius"
        THEN Number(Div(Mul(Sub(v, N32), N5), N9))
    ELSE IF from = "Celsius" /\ to = "Kelvin"
        THEN Number(Add(v, N273_15))
    ELSE IF from = "Kelvin" /\ to = "Celsius"
        THEN Number(Sub(v, N273_15))
    ELSE IF from = "Fahrenheit" /\ to = "Kelvin"
        THEN Number(Div(Mul(Sub(v, N32), N5), N9))
    ELSE IF from = "Kelvin" /\ to = "Fahrenheit"
        THEN Number(Add(Div(Mul(Sub(v, N273_15), N9), N5), N32))
    ELSE None

\* lines 126-141; a * 9/5 is (a * 9) / 5 in Python
convert_temperature(v, from, to) ==
    IF from = to THEN Number(v)
    ELSE IF from = "Celsius" /\ to = "Fahrenheit"
        THEN Number(Add(Div(Mul(v, N9), N5), N32))
    ELSE IF from = "Fahrenheit" /\ to = "Celsius"
        THEN Number(Div(Mul(Sub(v, N32), N5), N9))
    ELSE IF from = "Celsius" /\ to = "Kelvin"
        THEN Number(Add(v, N273_15))
    ELSE IF from = "Kelvin" /\ to = "Celsius"
        THEN Number(Sub(v, N273_15))
    ELSE IF from = "Fahrenheit" /\ to = "Kelvin"
        THEN Number(Add(Div(Mul(Sub(v, N32), N5), N9), N273_15))
    ELSE IF from = "Kelvin" /\ to = "Fahrenheit"
        THEN Number(Add(Div(Mul(Sub(v, N273_15), N9), N5), N32))
    ELSE None

\* the empty dict {}
EmptyMap == [u \in {} |-> Zero]

\* CONVERSION_FACTORS.get(category, {}), line 151
factors_get(c) ==
    IF c \in DOMAIN CONVERSION_FACTORS THEN CONVERSION_FACTORS[c] ELSE EmptyMap

\* convert_units testing only from_unit, an absent to_unit leaving the base value
convert_units_fromOnly(c, v, from, to) ==
    IF c = "Temperature" THEN convert_temperature(v, from, to)
    ELSE IF c = "Currency" THEN None
    ELSE LET factors == factors_get(c)
         IN  IF from \in DOMAIN factors
             THEN IF to \in DOMAIN factors
                  THEN DivThenMul(v, factors[from], factors[to])
                  ELSE DivThenMul(v, factors[from], Dec(1, 0))
             ELSE None

\* convert_units multiplying by the target factor without dividing by the source's
convert_units_noBase(c, v, from, to) ==
    IF c = "Temperature" THEN convert_temperature(v, from, to)
    ELSE IF c = "Currency" THEN None
    ELSE LET factors == factors_get(c)
         IN  IF from \in DOMAIN factors /\ to \in DOMAIN factors
             THEN Number(Mul(v, factors[to]))
             ELSE None

\* lines 143-155
convert_units(c, v, from, to) ==
    IF c = "Temperature" THEN convert_temperature(v, from, to)
    ELSE IF c = "Currency" THEN None
    ELSE LET factors == factors_get(c)
         IN  IF from \in DOMAIN factors /\ to \in DOMAIN factors
             THEN DivThenMul(v, factors[from], factors[to])
             ELSE None

\* lines 178-182
convert_currency(v, from, to, rates) ==
    IF from \in DOMAIN rates /\ to \in DOMAIN rates
    THEN DivThenMul(v, rates[from], rates[to])
    ELSE None

-----------------------------------------------------------------------------
(* The rate provider, lines 160-176 *)

\* what requests.get(url) and response.json() may produce: an exception, or
\* a JSON object with a result indicator and a conversion_rates object
Response(kind, res, rates) == [kind |-> kind, result |-> res, conversion_rates |-> rates]

RatesA == ("USD" :> Dec(1, 0)) @@ ("EUR" :> Dec(9, -1))

RatesB == ("USD" :> Dec(1, 0)) @@ ("EUR" :> Dec(95, -2))

RatesZ == ("USD" :> Dec(1, 0)) @@ ("EUR" :> Dec(9, -1)) @@ ("XXX" :> Zero)

RateMaps == {EmptyMap, RatesA, RatesB, RatesZ}

Responses ==
    {Response("exception", "", EmptyMap)}
    \cup {Response("json", "success", m) : m \in RateMaps}
    \cup {Response("json", "error", m) : m \in {EmptyMap, RatesA}}

\* one call: the mapping returned, whether an HTTP request was sent, whether
\* the call failed (st.error shown)
Fetched(rates, requested, failed) ==
    [rates |-> rates, requested |-> requested, failed |-> failed]

\* fetch_exchange_rates returning the body's rates whatever the result indicator
fetch_exchange_rates_anyResult(key_set, resp) ==
    IF ~key_set THEN Fetched(EmptyMap, FALSE, TRUE)
    ELSE IF resp.kind = "exception" THEN Fetched(EmptyMap, TRUE, TRUE)
    ELSE Fetched(resp.conversion_rates, TRUE, resp.result # "success")

\* lines 160-176
fetch_exchange_rates(key_set, resp) ==
    IF ~key_set THEN Fetched(EmptyMap, FALSE, TRUE)
    ELSE IF resp.kind = "exception" THEN Fetched(EmptyMap, TRUE, TRUE)
    ELSE IF resp.result = "success" THEN Fetched(resp.conversion_rates, TRUE, FALSE)
    ELSE Fetched(EmptyMap, TRUE, TRUE)

-----------------------------------------------------------------------------
(* main(), lines 212-277 *)

\* line 219 (the sorted list, as a set)
all_categories == DOMAIN CONVERSION_FACTORS \cup {"Temperature", "Currency"}

\* lines 223-229, given what the fetch of line 226 returned
units_of(c, exchange_rates) ==
    IF c = "Temperature" THEN Range(TEMPERATURE_UNITS)
    ELSE IF c = "Currency" THEN DOMAIN exchange_rates
    ELSE DOMAIN factors_get(c)

\* what a select box over these options returns: one of them, None over none
Selectable(opts) == IF opts = {} THEN {NoneUnit} ELSE opts

\* lines 236-240 and 249-253: the conversion main() makes, given the rates fetched
dispatch(c, v, from, to, rates) ==
    IF c = "Currency" THEN convert_currency(v, from, to, rates)
    ELSE convert_units(c, v, from, to)

\* what is displayed for a conversion outcome, lines 241-244 and 254-258
NotShown == [kind |-> "not shown", val |-> Zero]

Display(r) == IF IsNumber(r) THEN [kind |-> "result", val |-> r.val]
              ELSE [kind |-> "error", val |-> Zero]

-----------------------------------------------------------------------------
(* Inputs *)

MaxValue == 2

\* the values entered (st.number_input) or passed to a function
Values ==
    {Dec(m, 0) : m \in -MaxValue..MaxValue}
    \cup {Dec(5, 0), Dec(32, 0), Dec(100, 0), Dec(25, -1)}

\* unit names no table holds, beside those of other categories
OtherUnits == {"Furlong", "meter", "Meter", "Celsius", "Rankine", NoneUnit}

\* category names passed to the functions: the selectable ones and one that is none
ProbeCategories == all_categories \cup {"Nonsense"}

ProbeUnits(c) == units_of(c, RatesA) \cup OtherUnits

ProbeCodes == {"USD", "EUR", "XXX", "GBP", NoneUnit}

NotCalled == [kind |-> "not called", val |-> Zero]

Args(c, v, from, to, rates) ==
    [category |-> c, value |-> v, from_unit |-> from, to_unit |-> to, rates |-> rates]

NoArgs == Args("", Zero, NoneUnit, NoneUnit, EmptyMap)

-----------------------------------------------------------------------------
(* One run of main() *)

MainIdle ==
    /\ category = ""
    /\ units = {}
    /\ from_unit = NoneUnit
    /\ to_unit = NoneUnit
    /\ value = Zero
    /\ pressed = FALSE
    /\ sidebar = NotShown
    /\ mainArea = NotShown
    /\ fetchLog = <<>>
    /\ aiShown = "nothing"

FnIdle ==
    /\ fn = "none"
    /\ args = NoArgs
    /\ result = NotCalled
    /\ back = NotCalled

Init ==
    /\ pc = "start"
    /\ rate_key_set \in BOOLEAN
    /\ openai_key_set \in BOOLEAN
    /\ MainIdle
    /\ FnIdle

Logged(site, f) ==
    [site |-> site, rates |-> f.rates, requested |-> f.requested, failed |-> f.failed]

\* line 220
SelectCategory ==
    /\ pc = "start"
    /\ \E c \in all_categories : category' = c
    /\ pc' = "units"
    /\ UNCHANGED <<rate_key_set, openai_key_set, units, from_unit, to_unit, value,
                   pressed, sidebar, mainArea, fetchLog, aiShown, fnVars>>

\* lines 223-229, Currency: the fetch of line 226
DetermineUnitsCurrency ==
    /\ pc = "units"
    /\ category = "Currency"
    /\ \E resp \in Responses :
          LET f == fetch_exchange_rates(rate_key_set, resp)
          IN  /\ fetchLog' = Append(fetchLog, Logged("units", f))
              /\ units' = units_of(category, f.rates)
    /\ pc' = "inputs"
    /\ UNCHANGED <<rate_key_set, openai_key_set, category, from_unit, to_unit, value,
                   pressed, sidebar, mainArea, aiShown, fnVars>>

\* lines 223-229, every other category
DetermineUnitsStatic ==
    /\ pc = "units"
    /\ category # "Currency"
    /\ units' = units_of(category, EmptyMap)
    /\ pc' = "inputs"
    /\ UNCHANGED <<rate_key_set, openai_key_set, category, from_unit, to_unit, value,
                   pressed, sidebar, mainArea, fetchLog, aiShown, fnVars>>

\* lines 231-235: the widgets' values
ReadInputs ==
    /\ pc = "inputs"
    /\ from_unit' \in Selectable(units)
    /\ to_unit' \in Selectable(units)
    /\ value' \in Values
    /\ pressed' \in BOOLEAN
    /\ pc' = "sidebar"
    /\ UNCHANGED <<rate_key_set, openai_key_set, category, units, sidebar, mainArea,
                   fetchLog, aiShown, fnVars>>

\* line 235: Convert was not pressed
SidebarSkip ==
    /\ pc = "sidebar"
    /\ ~pressed
    /\ pc' = "main"
    /\ UNCHANGED <<rate_key_set, openai_key_set, category, units, from_unit, to_unit,
                   value, pressed, sidebar, mainArea, fetchLog, aiShown, fnVars>>

\* lines 235-244, Currency: the fetch of line 237, then the conversion
SidebarConvertCurrency ==
    /\ pc = "sidebar"
    /\ pressed
    /\ category = "Currency"
    /\ \E resp \in Responses :
          LET f == fetch_exchange_rates(rate_key_set, resp)
              r == dispatch(category, value, from_unit, to_unit, f.rates)
          IN  /\ fetchLog' = Append(fetchLog, Logged("sidebar", f))
              /\ IF r = ZeroDivisionError
                 THEN pc' = "crashed" /\ sidebar' = sidebar
                 ELSE pc' = "main" /\ sidebar' = Display(r)
    /\ UNCHANGED <<rate_key_set, openai_key_set, category, units, from_unit, to_unit,
                   value, pressed, mainArea, aiShown, fnVars>>

\* lines 235-244, every other category
SidebarConvertStatic ==
    /\ pc = "sidebar"
    /\ pressed
    /\ category # "Currency"
    /\ LET r == dispatch(category, value, from_unit, to_unit, EmptyMap)
       IN  IF r = ZeroDivisionError
           THEN pc' = "crashed" /\ sidebar' = sidebar
           ELSE pc' = "main" /\ sidebar' = Display(r)
    /\ UNCHANGED <<rate_key_set, openai_key_set, category, units, from_unit, to_unit,
                   value, pressed, mainArea, fetchLog, aiShown, fnVars>>

\* lines 247-258, Currency: the fetch of line 250, then the conversion
MainConvertCurrency ==
    /\ pc = "main"
    /\ category = "Currency"
    /\ \E resp \in Responses :
          LET f == fetch_exchange_rates(rate_key_set, resp)
              r == dispatch(category, value, from_unit, to_unit, f.rates)
          IN  /\ fetchLog' = Append(fetchLog, Logged("main", f))
              /\ IF r = ZeroDivisionError
                 THEN pc' = "crashed" /\ mainArea' = mainArea
                 ELSE pc' = "ai" /\ mainArea' = Display(r)
    /\ UNCHANGED <<rate_key_set, openai_key_set, category, units, from_unit, to_unit,
                   value, pressed, sidebar, aiShown, fnVars>>

\* lines 247-258, every other category
MainConvertStatic ==
    /\ pc = "main"
    /\ category # "Currency"
    /\ LET r == dispatch(category, value, from_unit, to_unit, EmptyMap)
       IN  IF r = ZeroDivisionError
           THEN pc' = "crashed" /\ mainArea' = mainArea
           ELSE pc' = "ai" /\ mainArea' = Display(r)
    /\ UNCHANGED <<rate_key_set, openai_key_set, category, units, from_unit, to_unit,
                   value, pressed, sidebar, fetchLog, aiShown, fnVars>>

\* lines 187-207: the text query_llm returns
query_llm(key_set, raised) ==
    IF ~key_set THEN "API key not found"
    ELSE IF raised THEN "Error querying AI"
    ELSE "answer"

\* lines 263-277
Assistant ==
    /\ pc = "ai"
    /\ \E ask_button \in BOOLEAN, blank \in BOOLEAN, raised \in BOOLEAN :
          aiShown' = IF ~ask_button THEN "nothing"
                     ELSE IF blank THEN "Please enter a question."
                     ELSE query_llm(openai_key_set, raised)
    /\ pc' = "done"
    /\ UNCHANGED <<rate_key_set, openai_key_set, category, units, from_unit, to_unit,
                   value, pressed, sidebar, mainArea, fetchLog, fnVars>>

Next ==
    \/ SelectCategory
    \/ DetermineUnitsCurrency
    \/ DetermineUnitsStatic
    \/ ReadInputs
    \/ SidebarSkip
    \/ SidebarConvertCurrency
    \/ SidebarConvertStatic
    \/ MainConvertCurrency
    \/ MainConvertStatic
    \/ Assistant

Spec == Init /\ [][Next]_vars

-----------------------------------------------------------------------------
(* Direct calls of the conversion functions *)

InitFn ==
    /\ pc = "idle"
    /\ rate_key_set = TRUE
    /\ openai_key_set = TRUE
    /\ MainIdle
    /\ FnIdle

CallTemperature ==
    /\ fn = "none"
    /\ \E v \in Values, from \in ProbeUnits("Temperature"), to \in ProbeUnits("Temperature") :
          /\ args' = Args("Temperature", v, from, to, EmptyMap)
          /\ result' = convert_temperature(v, from, to)
    /\ fn' = "convert_temperature"
    /\ UNCHANGED <<back, mainVars>>

CallUnits ==
    /\ fn = "none"
    /\ \E c \in ProbeCategories, v \in Values :
          \E from \in ProbeUnits(c), to \in ProbeUnits(c) :
             /\ args' = Args(c, v, from, to, EmptyMap)
             /\ result' = convert_units(c, v, from, to)
    /\ fn' = "convert_units"
    /\ UNCHANGED <<back, mainVars>>

\* the result of a convert_units call converted back to the unit it came from
CallUnitsBack ==
    /\ fn = "convert_units"
    /\ back = NotCalled
    /\ IsNumber(result)
    /\ back' = convert_units(args.category, result.val, args.to_unit, args.from_unit)
    /\ UNCHANGED <<fn, args, result, mainVars>>

CallCurrency ==
    /\ fn = "none"
    /\ \E v \in Values, from \in ProbeCodes, to \in ProbeCodes, rates \in RateMaps :
          /\ args' = Args("Currency", v, from, to, rates)
          /\ result' = convert_currency(v, from, to, rates)
    /\ fn' = "convert_currency"
    /\ UNCHANGED <<back, mainVars>>

\* the dispatch of main(), the rates being what a fetch returned
CallDispatch ==
    /\ fn = "none"
    /\ \E c \in ProbeCategories, v \in Values, key_set \in BOOLEAN, resp \in Responses :
          \E from \in ProbeUnits(c), to \in ProbeUnits(c) :
             LET rates == IF c = "Currency"
                          THEN fetch_exchange_rates(key_set, resp).rates
                          ELSE EmptyMap
             IN  /\ args' = Args(c, v, from, to, rates)
                 /\ result' = dispatch(c, v, from, to, rates)
    /\ fn' = "dispatch"
    /\ UNCHANGED <<back, mainVars>>

NextFn ==
    \/ CallTemperature
    \/ CallUnits
    \/ CallUnitsBack
    \/ CallCurrency
    \/ CallDispatch

SpecFn == InitFn /\ [][NextFn]_vars


-----------------------------------------------------------------------------
(* Properties *)

\* the fetch_exchange_rates calls of the run made at a site
FetchesAt(site) == {i \in DOMAIN fetchLog : fetchLog[i].site = site}

\* main() has passed the main-area conversion
Converted == pc \in {"ai", "done"}

\* C1: every request (one run of main) makes exactly one rate fetch when the
\* category is Currency and none otherwise, so that the unit choices and the
\* result come from the same fetch (without an API key no request can be sent:
\* then at most one attempt is asked for).
C1_OneFetchPerRequest ==
    LET calls    == Len(fetchLog)
        requests == Cardinality({i \in DOMAIN fetchLog : fetchLog[i].requested})
        expected == IF category = "Currency" THEN 1 ELSE 0
    IN  Converted =>
            /\ requests <= expected
            /\ rate_key_set => (calls = expected /\ requests = expected)

\* the six directed edges of the temperature table
Edges ==
    {<<"Celsius", "Fahrenheit">>, <<"Fahrenheit", "Celsius">>,
     <<"Celsius", "Kelvin">>, <<"Kelvin", "Celsius">>,
     <<"Fahrenheit", "Kelvin">>, <<"Kelvin", "Fahrenheit">>}

\* C2: convert_temperature returns a number exactly on the six edges and on
\* the identity over Celsius, Fahrenheit and Kelvin; every other pair of unit
\* names yields the error signal and no number.
C2_TemperatureOnlyOnSupportedPairs ==
    fn = "convert_temperature" =>
        LET supported ==
                \/ <<args.from_unit, args.to_unit>> \in Edges
                \/ /\ args.from_unit = args.to_unit
                   /\ args.from_unit \in Range(TEMPERATURE_UNITS)
        IN  /\ supported => IsNumber(result)
            /\ ~supported => result = None

\* both units are keys of the category's factor mapping
BothUnitsKnown ==
    /\ args.from_unit \in DOMAIN CONVERSION_FACTORS[args.category]
    /\ args.to_unit \in DOMAIN CONVERSION_FACTORS[args.category]

\* C3: for a category of the Unit Table the linear conversion yields the error
\* signal (None) and no number whenever from_unit or to_unit is not a key of
\* the category's factors (exact match), and a number only when both are.
C3_UnknownUnitYieldsNoNumber ==
    (fn = "convert_units" /\ args.category \in DOMAIN CONVERSION_FACTORS) =>
        /\ IsNumber(result) <=> BothUnitsKnown
        /\ ~BothUnitsKnown => result = None

\* C3 witness: convert_units("Length", 5, "Meter", "Furlong") yielded None
C3_Witness ==
    /\ fn = "convert_units"
    /\ args = Args("Length", Dec(5, 0), "Meter", "Furlong", EmptyMap)
    /\ result = None

\* what the code yields for an unknown unit of a known category
UnknownUnitSignal == convert_units("Length", Dec(5, 0), "Meter", "Furlong")

\* C4: the dispatcher routes Temperature to the temperature converter,
\* Currency to the currency converter over the fetched rates and a category
\* of the Unit Table to the linear converter; any other category name yields
\* a failure that is no number and is distinct from the unknown-unit failure.
C4_DispatchAndUnknownCategory ==
    fn = "dispatch" =>
        /\ args.category = "Temperature" =>
              result = convert_temperature(args.value, args.from_unit, args.to_unit)
        /\ args.category = "Currency" =>
              result = convert_currency(args.value, args.from_unit, args.to_unit, args.rates)
        /\ args.category \in DOMAIN CONVERSION_FACTORS =>
              /\ IsNumber(result) <=> BothUnitsKnown
              /\ BothUnitsKnown =>
                    result = DivThenMul(args.value,
                                        CONVERSION_FACTORS[args.category][args.from_unit],
                                        CONVERSION_FACTORS[args.category][args.to_unit])
        /\ args.category \notin all_categories =>
              /\ ~IsNumber(result)
              /\ result # UnknownUnitSignal

\* C5: convert_currency yields value / rates[from] * rates[to] when both codes
\* are keys of the rate mapping, and the error signal with no number when
\* either is absent (always so against an empty mapping).
C5_CurrencyResult ==
    fn = "convert_currency" =>
        IF args.from_unit \in DOMAIN args.rates /\ args.to_unit \in DOMAIN args.rates
        THEN /\ IsNumber(result)
             /\ Mul(result.val, args.rates[args.from_unit])
                    = Mul(args.value, args.rates[args.to_unit])
        ELSE result = None

C7_NeverCrashes == pc # "crashed"

N1_8 == Dec(18, -1)

\* the formula the table gives for an edge, 9/5 written as 1.8
Tabled(v, from, to) ==
    CASE from = "Celsius" /\ to = "Fahrenheit" -> Add(Mul(v, N1_8), N32)
      [] from = "Fahrenheit" /\ to = "Celsius" -> Div(Sub(v, N32), N1_8)
      [] from = "Celsius" /\ to = "Kelvin" -> Add(v, N273_15)
      [] from = "Kelvin" /\ to = "Celsius" -> Sub(v, N273_15)
      [] from = "Fahrenheit" /\ to = "Kelvin" -> Add(Div(Sub(v, N32), N1_8), N273_15)
      [] from = "Kelvin" /\ to = "Fahrenheit" -> Add(Mul(Sub(v, N273_15), N1_8), N32)

\* C8: convert_temperature computes each of the six edges by its tabled
\* formula and returns v unchanged for equal units; 0 C is 32 F, 100 C is
\* 212 F, 0 C is 273.15 K and 32 F is 0 C.
C8_TemperatureFormulas ==
    fn = "convert_temperature" =>
        /\ <<args.from_unit, args.to_unit>> \in Edges =>
              result = Number(Tabled(args.value, args.from_unit, args.to_unit))
        /\ args.from_unit = args.to_unit => result = Number(args.value)
        /\ (args.value = Zero /\ args.from_unit = "Celsius" /\ args.to_unit = "Fahrenheit")
              => result = Number(Dec(32, 0))
        /\ (args.value = Dec(100, 0) /\ args.from_unit = "Celsius" /\ args.to_unit = "Fahrenheit")
              => result = Number(Dec(212, 0))
        /\ (args.value = Zero /\ args.from_unit = "Celsius" /\ args.to_unit = "Kelvin")
              => result = Number(Dec(27315, -2))
        /\ (args.value = Dec(32, 0) /\ args.from_unit = "Fahrenheit" /\ args.to_unit = "Celsius")
              => result = Number(Zero)

\* C8 witness: convert_temperature(100, "Celsius", "Fahrenheit") returned 212
C8_Witness ==
    /\ fn = "convert_temperature"
    /\ args.value = Dec(100, 0)
    /\ args.from_unit = "Celsius"
    /\ args.to_unit = "Fahrenheit"
    /\ result = Number(Dec(212, 0))

\* C9: every factor of the table is positive, so for every two units of a
\* category (equal ones included) the conversion yields a number, a unit
\* converted to itself returns v, and converting the result back returns v.
C9_RoundTrip ==
    /\ \A c \in DOMAIN CONVERSION_FACTORS : \A u \in DOMAIN CONVERSION_FACTORS[c] :
          CONVERSION_FACTORS[c][u].n > 0
    /\ (fn = "convert_units" /\ args.category \in DOMAIN CONVERSION_FACTORS /\ BothUnitsKnown) =>
          /\ IsNumber(result)
          /\ args.from_unit = args.to_unit => result = Number(args.value)
          /\ back # NotCalled => back = Number(args.value)

\* C9 witness: 2.5 feet converted to inches and back gave 2.5
C9_Witness ==
    /\ fn = "convert_units"
    /\ args = Args("Length", Dec(25, -1), "Foot", "Inch", EmptyMap)
    /\ result # Number(args.value)
    /\ back = Number(Dec(25, -1))

\* C10: in a run in which Convert was pressed the sidebar and the main area
\* show the same outcome: both an error or both the same number.
C10_SidebarMatchesMainArea ==
    (Converted /\ pressed) => sidebar = mainArea

====
